---- MODULE Spec2Model ----
(***************************************************************************)
(* State-machine model of the Foresee crime-data API (src/api/api.py).     *)
(*                                                                         *)
(* The process state is the token table TOKENS; the relational store holds *)
(* the user table and the crime-record table "main".  Every route handler  *)
(* is one action; /register is two steps (existence check, then create)    *)
(* because its handler reads and then writes the store with nothing held   *)
(* in between, and FastAPI runs "def" handlers on a thread pool.           *)
(*                                                                         *)
(* The data access layer (DataComponents, build_conditions, forecast_data, *)
(* freqmap, category_map, apply_pond, apply_ponderation_to_data) is        *)
(* imported from lib, which is not among the sources; it is modelled from  *)
(* the specification's description of it.                                  *)
(***************************************************************************)
EXTENDS Integers, Sequences, FiniteSets, Bags, TLC

VARIABLES
    TOKENS,     \* api.py:41  token -> email, process memory
    users,      \* the user table of the relational store (a set of rows)
    main,       \* the crime-record table 'main' (a bag of rows)
    inflight,   \* worker -> the /register request it holds between check and create
    response    \* what the last step answered (NoResponse: it answered nothing)

vars == <<TOKENS, users, main, inflight, response>>

---------------------------------------------------------------------------
(* Bounds of the model *)

MaxTokens == 2      \* tokens uuid4 can draw
MaxRecords == 2     \* rows of the crime-record table

---------------------------------------------------------------------------
(* Values *)

\* Optional[T]: None is the empty sequence, a present value v is <<v>>.
None == <<>>
Some(v) == <<v>>
\* get_user's None, and the reply of a step that answers nothing
NoUser == [id |-> 0]
NoResponse == [op |-> "none"]

Tokens == 1..MaxTokens
\* request threads that can hold a /register between its check and its create
Workers == {"w1", "w2"}

Places == {"COMUNA 1", "COMUNA 2"}

\* Python truthiness of an Optional[List[str]]: None and [] are falsy.
Truthy(list) == list # None /\ list[1] # <<>>

Range(s) == {s[i] : i \in DOMAIN s}

---------------------------------------------------------------------------
(* Data access layer (lib.DataComponents), modelled from the specification *)

\* The stored secret is a value derived from the password, compared for equality.
Hash(password) == <<"hash", password>>

\* role -> permission set (static or table-backed)
RolePerms(role) ==
    CASE role = "admin"    -> {"PREDICT SI", "Nuevos datos SI", "Nuevos usuarios SI", "SEE_ALL", "SEE_LOCAL"}
      [] role = "analyst"  -> {"PREDICT SI", "SEE_LOCAL"}
      [] role = "operator" -> {"Nuevos datos SI", "SEE_LOCAL"}
      [] OTHER             -> {}

\* fetch user by email: the first row with that email, None when there is none
get_user(email) ==
    LET rows == {u \in users : u.email = email}
    IN  IF rows = {} THEN NoUser
        ELSE CHOOSE u \in rows : \A v \in rows : u.id <= v.id

\* verify login: email + plaintext password against the stored hash
verify_login(email, password) ==
    LET u == get_user(email)
    IN  u # NoUser /\ u.password = Hash(password)

\* permission set for an email, derived from the user's role
get_user_permissions(email) ==
    LET u == get_user(email)
    IN  IF u = NoUser THEN {} ELSE RolePerms(u.role)

\* the areas a user may see: "local" = own area only, "all" = every area
get_secure_unique_places(email, see) ==
    LET u == get_user(email)
    IN  IF u = NoUser THEN {}
        ELSE IF see = "SEE_ALL" THEN Places
        ELSE {u.area}

\* the row identifier the store gives the next row
NextId == 1 + (CHOOSE n \in {0} \cup {u.id : u \in users} : \A u \in users : u.id <= n)

\* create a user row
create_user(email, full_name, area, password, role) ==
    users' = users \cup
        {[id |-> NextId, email |-> email, full_name |-> full_name,
          area |-> area, password |-> Hash(password), role |-> role]}

\* freqmap: the frequency label of a request -> the bucket code of the query
freqmap == [f \in {"Por trimestre", "Por mes", "Por semana"} |->
               CASE f = "Por trimestre" -> "Q" [] f = "Por mes" -> "M" [] OTHER -> "W"]

\* category_map: crime description -> stored category; a lookup that fails on
\* a description it does not hold
category_map == [d \in {"Robo", "Hurto"} |-> d]

\* apply_pond: the weighting factor derived from the category
apply_pond(rec) ==
    [date |-> rec.date, crimecodedesc |-> rec.crimecodedesc, areaname |-> rec.areaname,
     pond |-> IF rec.crimecodedesc = "Robo" THEN 2 ELSE 1]

\* A datetime is a count of half days; datetime.date() drops the time of day.
date(datetime) == datetime \div 2

\* Days of a bucket in the model's calendar (a week of 1 day, a month of 2, a quarter of 4).
BucketDays(freq) == CASE freq = "W" -> 1 [] freq = "M" -> 2 [] OTHER -> 4

\* date_trunc(freq, date): the first day of the bucket
Period(freq, datetime) == (date(datetime) \div BucketDays(freq)) * BucketDays(freq)

\* build_conditions: empty/absent lists mean "no filter" (None), values pass through verbatim
build_conditions(crimes, places) ==
    <<IF Truthy(crimes) THEN Some(Range(crimes[1])) ELSE None,
      IF Truthy(places) THEN Some(Range(places[1])) ELSE None>>

\* the rows of 'main' a pair of conditions selects
Selected(crime_cond, place_cond) ==
    {r \in BagToSet(main) :
        /\ crime_cond = None \/ r.crimecodedesc \in crime_cond[1]
        /\ place_cond = None \/ r.areaname \in place_cond[1]}

RECURSIVE SumOver(_, _, _)
SumOver(rows, weight, pond) ==
    IF rows = {} THEN 0
    ELSE LET r == CHOOSE x \in rows : TRUE
         IN  CopiesIn(r, main) * (IF pond THEN r.pond ELSE weight)
             + SumOver(rows \ {r}, weight, pond)

\* secure grouped aggregation: one row per bucket with count and weighting
secure_fetch_grouped_data(crime_cond, place_cond, freq) ==
    LET sel == Selected(crime_cond, place_cond)
        periods == {Period(freq, r.date) : r \in sel}
    IN  {[period |-> p,
          count |-> SumOver({r \in sel : Period(freq, r.date) = p}, 1, FALSE),
          pond |-> SumOver({r \in sel : Period(freq, r.date) = p}, 1, TRUE)] : p \in periods}

\* apply_ponderation_to_data: counts pre-scaled by the weighting when ponder is set
apply_ponderation_to_data(df, ponder) ==
    {[period |-> r.period, y |-> IF ponder THEN r.pond ELSE r.count] : r \in df}

RECURSIVE SumY(_)
SumY(df) ==
    IF df = {} THEN 0
    ELSE LET r == CHOOSE x \in df : TRUE IN r.y + SumY(df \ {r})

Latest(df) == CHOOSE p \in {r.period : r \in df} : \A r \in df : r.period <= p

\* forecast adapter: with no historical period there is no last period to continue
\* from, and the adapter raises
forecast_fails(df) == df = {}

\* forecast adapter: a row per historical period plus n_steps future periods, each
\* with a point estimate and lower/upper bound, in tenths (the estimates are not integral)
forecast_data(df, freq, n_steps) ==
    LET mean == (10 * SumY(df)) \div Cardinality(df)
    IN  {[ds |-> r.period, yhat |-> 10 * r.y, yhat_lower |-> 10 * r.y - 14,
          yhat_upper |-> 10 * r.y + 14, tipo |-> "Histórico"] : r \in df}
        \cup
        {[ds |-> Latest(df) + k * BucketDays(freq), yhat |-> mean + k,
          yhat_lower |-> mean + k - 14, yhat_upper |-> mean + k + 14,
          tipo |-> "Predicción"] : k \in 1..n_steps}

---------------------------------------------------------------------------
(* Session guard and authentication, api.py:47-64 *)

\* uuid.uuid4(): a random 122-bit identifier, modelled as one not in use.  Tokens
\* are opaque, so the unused one drawn is the least; there is none once all are drawn.
\* Defect variant: the same identifier at every call
uuid4_fixed == {t \in Tokens : \A u \in Tokens : t <= u}

uuid4 ==
    LET unused == Tokens \ DOMAIN TOKENS
    IN  {t \in unused : \A u \in unused : t <= u}

\* Defect variant: a token issued without verifying the credentials
authenticate_user_unverified(email, password) ==
    \E token \in uuid4 :
        /\ TOKENS' = [t \in DOMAIN TOKENS \cup {token} |->
                         IF t = token THEN email ELSE TOKENS[t]]
        /\ response' = [op |-> "login", email |-> email, password |-> password,
                        status |-> 200, token |-> token]

\* api.py:47-53
authenticate_user(email, password) ==
    IF verify_login(email, password)
    THEN \E token \in uuid4 :
            /\ TOKENS' = [t \in DOMAIN TOKENS \cup {token} |->
                             IF t = token THEN email ELSE TOKENS[t]]
            /\ response' = [op |-> "login", email |-> email, password |-> password,
                            status |-> 200, token |-> token]
    ELSE /\ TOKENS' = TOKENS
         /\ response' = [op |-> "login", email |-> email, password |-> password,
                         status |-> 401]

\* Defect variant: a missing user answered as an invalid token
get_current_user_401(x_token) ==
    IF x_token \notin DOMAIN TOKENS \/ get_user(TOKENS[x_token]) = NoUser
    THEN [status |-> 401, user |-> NoUser]
    ELSE [status |-> 200, user |-> get_user(TOKENS[x_token])]

\* api.py:55-64
get_current_user(x_token) ==
    IF x_token \notin DOMAIN TOKENS
    THEN [status |-> 401, user |-> NoUser]
    ELSE LET user == get_user(TOKENS[x_token])
         IN  IF user = NoUser
             THEN [status |-> 404, user |-> NoUser]
             ELSE [status |-> 200, user |-> user]

---------------------------------------------------------------------------
(* Endpoints *)

\* POST /login, api.py:90-95
login(email, password) ==
    /\ authenticate_user(email, password)
    /\ UNCHANGED <<users, main, inflight>>

\* GET /permissions, api.py:111-117
permissions(x_token) ==
    LET g == get_current_user(x_token)
    IN  /\ response' =
              IF g.status # 200
              THEN [op |-> "permissions", token |-> x_token, status |-> g.status,
                    user |-> NoUser, permissions |-> {}]
              ELSE [op |-> "permissions", token |-> x_token, status |-> 200,
                    user |-> g.user, permissions |-> get_user_permissions(g.user.email)]
        /\ UNCHANGED <<TOKENS, users, main, inflight>>

\* POST /logout, api.py:130-134: only the cookie is deleted
logout(x_token) ==
    /\ response' = [op |-> "logout", token |-> x_token, status |-> 200]
    /\ UNCHANGED <<TOKENS, users, main, inflight>>

\* GET /secure-places, api.py:158-162
secure_places(x_token, see) ==
    LET g == get_current_user(x_token)
    IN  /\ response' =
              IF g.status # 200
              THEN [op |-> "secure-places", token |-> x_token, status |-> g.status,
                    user |-> NoUser, see |-> see, places |-> {}]
              ELSE [op |-> "secure-places", token |-> x_token, status |-> 200,
                    user |-> g.user, see |-> see,
                    places |-> get_secure_unique_places(g.user.email, see)]
        /\ UNCHANGED <<TOKENS, users, main, inflight>>

\* Defect variant: all() where the handler has any()
place_denied_all(chosen_place, places) ==
    Truthy(chosen_place) /\ \A i \in DOMAIN chosen_place[1] : chosen_place[1][i] \notin places

\* api.py:191, the membership check of /grouped-data
place_denied(chosen_place, places) ==
    Truthy(chosen_place) /\ \E i \in DOMAIN chosen_place[1] : chosen_place[1][i] \notin places

\* api.py:189 and 235: only the first element is read, split at its commas
\* (a string is modelled as the sequence of its comma-separated fields)
split_first(chosen_crime) ==
    IF Truthy(chosen_crime) THEN Some(chosen_crime[1][1]) ELSE None

\* api.py:197-198, the time window
window(df, init_time, end_time) ==
    IF init_time # None /\ end_time # None
    THEN {r \in df : r.period >= date(init_time[1]) /\ r.period <= date(end_time[1])}
    ELSE df

\* POST /grouped-data, api.py:183-199
get_grouped_data(x_token, request) ==
    LET g == get_current_user(x_token)
        crimes == split_first(request.chosen_crime)
        places == get_secure_unique_places(g.user.email, "SEE_LOCAL")
        conds == build_conditions(crimes, request.chosen_place)
        df == secure_fetch_grouped_data(conds[1], conds[2], freqmap[request.frequency])
        dropped == {[period |-> r.period, count |-> r.count] : r \in df}
    IN  /\ response' =
              IF g.status # 200
              THEN [op |-> "grouped-data", token |-> x_token, status |-> g.status,
                    user |-> NoUser, queried |-> FALSE]
              ELSE IF place_denied(request.chosen_place, places)
              THEN [op |-> "grouped-data", token |-> x_token, status |-> 403,
                    user |-> g.user, chosen_place |-> request.chosen_place,
                    init_time |-> request.init_time, end_time |-> request.end_time,
                    queried |-> FALSE, scanned |-> {}, fetched |-> {}, rows |-> {}]
              ELSE [op |-> "grouped-data", token |-> x_token, status |-> 200,
                    user |-> g.user, chosen_place |-> request.chosen_place,
                    init_time |-> request.init_time, end_time |-> request.end_time,
                    queried |-> TRUE,
                    scanned |-> {r.areaname : r \in Selected(conds[1], conds[2])},
                    fetched |-> dropped,
                    rows |-> window(dropped, request.init_time, request.end_time)]
        /\ UNCHANGED <<TOKENS, users, main, inflight>>

\* The permission each guarded route asks for, api.py:232, 279, 333
predict_permission == "PREDICT SI"
new_data_permission == "Nuevos datos SI"
\* Defect variant: /register asking for the permission of /new-data
register_permission_of_new_data == "Nuevos datos SI"
register_permission == "Nuevos usuarios SI"

\* api.py:242: DataFrame.drop returns a new frame, which the handler does not keep
drop_historical(forecast) == forecast

\* api.py:244-246, Series.round(0).astype(int) on a value in tenths (half to even)
round0(x) ==
    LET q == x \div 10
        r == x % 10
    IN  10 * (IF r < 5 THEN q
              ELSE IF r > 5 THEN q + 1
              ELSE IF q % 2 = 0 THEN q ELSE q + 1)

\* POST /predict, api.py:222-247
predict_data(x_token, chosen_crime, chosen_place, frequency, n_steps, ponder) ==
    LET g == get_current_user(x_token)
        perms == get_user_permissions(g.user.email)
        crimes == split_first(chosen_crime)
        conds == build_conditions(crimes, chosen_place)
        df == secure_fetch_grouped_data(conds[1], conds[2], freqmap[frequency])
        series == apply_ponderation_to_data(df, ponder)
        forecast == drop_historical(forecast_data(series, freqmap[frequency], n_steps))
    IN  /\ response' =
              IF g.status # 200
              THEN [op |-> "predict", token |-> x_token, status |-> g.status,
                    user |-> NoUser, queried |-> FALSE]
              ELSE IF predict_permission \notin perms
              THEN [op |-> "predict", token |-> x_token, status |-> 403,
                    user |-> g.user, chosen_place |-> chosen_place, n_steps |-> n_steps,
                    queried |-> FALSE, scanned |-> {}, history |-> {}, rows |-> {}]
              ELSE IF forecast_fails(series)
              THEN [op |-> "predict", token |-> x_token, status |-> 500,
                    user |-> g.user, chosen_place |-> chosen_place, n_steps |-> n_steps,
                    queried |-> TRUE, scanned |-> {}, history |-> {}, rows |-> {}]
              ELSE [op |-> "predict", token |-> x_token, status |-> 200,
                    user |-> g.user, chosen_place |-> chosen_place, n_steps |-> n_steps,
                    queried |-> TRUE,
                    scanned |-> {r.areaname : r \in Selected(conds[1], conds[2])},
                    history |-> {r.period : r \in df},
                    rows |-> {[ds |-> r.ds, yhat |-> round0(r.yhat),
                               yhat_lower |-> round0(r.yhat_lower),
                               yhat_upper |-> round0(r.yhat_upper)] : r \in forecast}]
        /\ UNCHANGED <<TOKENS, users, main, inflight>>

\* POST /new-data, api.py:273-299; stored is whether the insert and commit went through
new_data(x_token, record, stored) ==
    LET g == get_current_user(x_token)
        perms == get_user_permissions(g.user.email)
    IN  IF g.status # 200
        THEN /\ response' = [op |-> "new-data", token |-> x_token, status |-> g.status,
                             user |-> NoUser]
             /\ UNCHANGED <<TOKENS, users, main, inflight>>
        ELSE IF new_data_permission \notin perms
        THEN /\ response' = [op |-> "new-data", token |-> x_token, status |-> 403,
                             user |-> g.user]
             /\ UNCHANGED <<TOKENS, users, main, inflight>>
        ELSE IF record.crimecodedesc \notin DOMAIN category_map \/ ~stored
        THEN /\ response' = [op |-> "new-data", token |-> x_token, status |-> 500,
                             user |-> g.user]
             /\ UNCHANGED <<TOKENS, users, main, inflight>>
        ELSE /\ BagCardinality(main) < MaxRecords
             /\ main' = main (+) SetToBag({apply_pond(
                            [date |-> record.date,
                             crimecodedesc |-> category_map[record.crimecodedesc],
                             areaname |-> record.areaname])})
             /\ response' = [op |-> "new-data", token |-> x_token, status |-> 200,
                             user |-> g.user]
             /\ UNCHANGED <<TOKENS, users, inflight>>

\* POST /register, api.py:327-336: the guard, the permission check and the
\* existence check, on worker w
register_check(w, x_token, new_user) ==
    LET g == get_current_user(x_token)
        perms == get_user_permissions(g.user.email)
    IN  /\ inflight[w] = None
        /\ IF g.status # 200
           THEN /\ response' = [op |-> "register", token |-> x_token, status |-> g.status,
                                user |-> NoUser]
                /\ UNCHANGED inflight
           ELSE IF register_permission \notin perms
           THEN /\ response' = [op |-> "register", token |-> x_token, status |-> 403,
                                user |-> g.user, email |-> new_user.email]
                /\ UNCHANGED inflight
           ELSE IF get_user(new_user.email) # NoUser
           THEN /\ response' = [op |-> "register", token |-> x_token, status |-> 400,
                                user |-> g.user, email |-> new_user.email]
                /\ UNCHANGED inflight
           ELSE /\ response' = NoResponse
                /\ inflight' = [inflight EXCEPT ![w] =
                                   Some([user |-> g.user, new_user |-> new_user])]
        /\ UNCHANGED <<TOKENS, users, main>>

\* POST /register, api.py:337-340: the create, on the worker that passed the checks;
\* success is what create_user returns
register_create(w, success) ==
    /\ inflight[w] # None
    /\ LET held == inflight[w][1]
           new_user == held.new_user
       IN  IF success
           THEN /\ create_user(new_user.email, new_user.full_name, new_user.area,
                               new_user.password, new_user.role)
                /\ response' = [op |-> "register", status |-> 200,
                                user |-> held.user, email |-> new_user.email]
           ELSE /\ UNCHANGED users
                /\ response' = [op |-> "register", status |-> 500,
                                user |-> held.user, email |-> new_user.email]
    /\ inflight' = [inflight EXCEPT ![w] = None]
    /\ UNCHANGED <<TOKENS, main>>

\* GET /, api.py:343-345
root ==
    /\ response' = [op |-> "root", status |-> 200]
    /\ UNCHANGED <<TOKENS, users, main, inflight>>

---------------------------------------------------------------------------
(* Requests the clients send *)

Emails == {"a@x", "b@x", "c@x"}
Passwords == {"pw", "bad"}
Sees == {"SEE_LOCAL", "SEE_ALL"}

ChosenCrimes == {None, Some(<< <<"Robo">>, <<"Hurto">> >>)}
ChosenPlaces == {None, Some(<<>>), Some(<<"COMUNA 1">>), Some(<<"COMUNA 2">>),
                 Some(<<"COMUNA 1", "COMUNA 2">>)}
Frequencies == {"Por mes", "Por semana"}
InitTimes == {None, Some(2)}
EndTimes == {None, Some(5)}
NSteps == {1, 2}

PlaceWindowRequests ==
    [chosen_crime : {None}, chosen_place : ChosenPlaces, frequency : {"Por mes"},
     init_time : InitTimes, end_time : EndTimes]
CrimeFrequencyRequests ==
    [chosen_crime : ChosenCrimes, chosen_place : {None}, frequency : Frequencies,
     init_time : {None}, end_time : {None}]

NewCrimes ==
    {[date |-> 1, crimecodedesc |-> "Robo", areaname |-> "COMUNA 1"],
     [date |-> 5, crimecodedesc |-> "Hurto", areaname |-> "COMUNA 2"]}

RegisterUsers ==
    [email : {"b@x", "c@x"}, full_name : {"C"}, area : {"COMUNA 1"}, password : {"pw"},
     role : {"operator"}]

\* The requests of the whole-API specification: one query of each shape
FewGroupedDataRequests ==
    [chosen_crime : {None}, chosen_place : {None, Some(<<"COMUNA 1">>)},
     frequency : {"Por mes"}, init_time : {None}, end_time : {None}]
FewNewCrimes == [date : {1}, crimecodedesc : {"Robo", "Otro"}, areaname : {"COMUNA 1"}]

---------------------------------------------------------------------------
(* The system *)

\* The store as the process finds it: an administrator and an analyst
InitUsers ==
    {[id |-> 1, email |-> "a@x", full_name |-> "A", area |-> "COMUNA 1",
      password |-> Hash("pw"), role |-> "admin"],
     [id |-> 2, email |-> "b@x", full_name |-> "B", area |-> "COMUNA 2",
      password |-> Hash("pw"), role |-> "analyst"]}

Init ==
    /\ TOKENS = <<>>
    /\ users = InitUsers
    /\ main = EmptyBag
    /\ inflight = [w \in Workers |-> None]
    /\ response = NoResponse

\* Every route, queries of one shape each
Next ==
    \/ \E email \in Emails, password \in Passwords : login(email, password)
    \/ \E x_token \in Tokens : permissions(x_token)
    \/ \E x_token \in Tokens : logout(x_token)
    \/ \E x_token \in Tokens, see \in Sees : secure_places(x_token, see)
    \/ \E x_token \in Tokens, request \in FewGroupedDataRequests :
            get_grouped_data(x_token, request)
    \/ \E x_token \in Tokens :
            predict_data(x_token, None, None, "Por mes", 1, FALSE)
    \/ \E x_token \in Tokens, record \in FewNewCrimes, stored \in BOOLEAN :
            new_data(x_token, record, stored)
    \/ \E w \in Workers, x_token \in Tokens, new_user \in RegisterUsers :
            register_check(w, x_token, new_user)
    \/ \E w \in Workers, success \in BOOLEAN : register_create(w, success)
    \/ root

Spec == Init /\ [][Next]_vars

\* The store loses a user row (outside the API: no route deletes users)
DbDeleteUser(u) ==
    /\ users' = users \ {u}
    /\ response' = NoResponse
    /\ UNCHANGED <<TOKENS, main, inflight>>

\* The routes that add no user row, over a store whose user rows can disappear
NextStore ==
    \/ \E email \in Emails, password \in Passwords : login(email, password)
    \/ \E x_token \in Tokens : permissions(x_token)
    \/ \E x_token \in Tokens : logout(x_token)
    \/ \E x_token \in Tokens, see \in Sees : secure_places(x_token, see)
    \/ \E x_token \in Tokens, request \in FewGroupedDataRequests :
            get_grouped_data(x_token, request)
    \/ \E x_token \in Tokens :
            predict_data(x_token, None, None, "Por mes", 1, FALSE)
    \/ \E x_token \in Tokens, record \in FewNewCrimes, stored \in BOOLEAN :
            new_data(x_token, record, stored)
    \/ root
    \/ \E u \in users : DbDeleteUser(u)

SpecStore == Init /\ [][NextStore]_vars

\* The data routes: every place list with every window and step count, and
\* every crime list with every frequency and weighting
NextData ==
    \/ \E email \in {"a@x", "b@x"} : login(email, "pw")
    \/ \E x_token \in Tokens, request \in PlaceWindowRequests \cup CrimeFrequencyRequests :
            get_grouped_data(x_token, request)
    \/ \E x_token \in Tokens, chosen_place \in ChosenPlaces, n_steps \in NSteps :
            predict_data(x_token, None, chosen_place, "Por mes", n_steps, FALSE)
    \/ \E x_token \in Tokens, chosen_crime \in ChosenCrimes, frequency \in Frequencies,
          ponder \in BOOLEAN :
            predict_data(x_token, chosen_crime, None, frequency, 1, ponder)
    \/ \E x_token \in Tokens, record \in NewCrimes :
            new_data(x_token, record, TRUE)

SpecData == Init /\ [][NextData]_vars

---------------------------------------------------------------------------
(* Properties *)

\* The routes behind the session guard
Guarded == {"permissions", "secure-places", "grouped-data", "predict", "new-data", "register"}

\* The place set /grouped-data computes for its caller (api.py:190)
Permitted(user) == get_secure_unique_places(user.email, "SEE_LOCAL")

\* The places a caller may see at most: every place with "SEE_ALL", else the local ones
MaySee(user) ==
    IF "SEE_ALL" \in get_user_permissions(user.email)
    THEN get_secure_unique_places(user.email, "SEE_ALL")
    ELSE get_secure_unique_places(user.email, "SEE_LOCAL")

\* A client-supplied place list names a place outside a set
NamesOutside(chosen_place, places) ==
    Truthy(chosen_place) /\ \E i \in DOMAIN chosen_place[1] : chosen_place[1][i] \notin places

C1_LoginStep ==
    response'.op = "login" =>
        IF verify_login(response'.email, response'.password)
        THEN /\ response'.status = 200
             /\ response'.token \notin DOMAIN TOKENS
             /\ DOMAIN TOKENS' = DOMAIN TOKENS \cup {response'.token}
             /\ TOKENS'[response'.token] = response'.email
        ELSE /\ response'.status = 401
             /\ TOKENS' = TOKENS

C1_Resolves ==
    \A t \in DOMAIN TOKENS :
        /\ get_current_user(t).status = 200
        /\ get_current_user(t).user.email = TOKENS[t]

C1_Kept == \A t \in DOMAIN TOKENS : t \in DOMAIN TOKENS' /\ TOKENS'[t] = TOKENS[t]

\* C1: a /login whose credentials pass verification adds a token mapped to the
\* request's email and returns it, and from then on the session guard resolves
\* that token to the user with that email; a /login whose credentials fail is
\* answered 401 and leaves the token table as it was.
C1_LoginIssuesResolvingToken == []C1_Resolves /\ [][C1_LoginStep /\ C1_Kept]_vars

\* A login has just answered with a token, which the guard resolves to its user.
C1_Witness ==
    /\ response.op = "login"
    /\ response.status = 200
    /\ response.token \in DOMAIN TOKENS
    /\ get_current_user(response.token).user.email = response.email

\* C2: after a /logout made with a token, that token is no longer in the token
\* table, so the session guard rejects it.
C2_LogoutInvalidatesToken ==
    response.op = "logout" =>
        /\ response.token \notin DOMAIN TOKENS
        /\ get_current_user(response.token).status = 401

\* C3: /grouped-data and /predict never accept a request naming a place outside the
\* caller's permitted places (it is rejected, with 403), and an accepted request,
\* also one with an absent or empty chosen_place, reads only records of permitted
\* places.
C3_QueriesScopedToPermittedPlaces ==
    (response.op \in {"grouped-data", "predict"} /\ response.status = 200) =>
        /\ ~NamesOutside(response.chosen_place, MaySee(response.user))
        /\ response.scanned \subseteq MaySee(response.user)

C5_Rejects(op, permission) ==
    (/\ response'.op = op
     /\ response'.user # NoUser
     /\ permission \notin get_user_permissions(response'.user.email))
    => /\ response'.status = 403
       /\ main' = main
       /\ users' = users

C5_Step ==
    /\ C5_Rejects("predict", "PREDICT SI")
    /\ C5_Rejects("new-data", "Nuevos datos SI")
    /\ C5_Rejects("register", "Nuevos usuarios SI")
    /\ (response'.op = "predict" /\ response'.status = 403)
          => (response'.rows = {} /\ ~response'.queried)

\* C5: /predict, /new-data and /register answer 403 to an authenticated caller whose
\* permissions lack "PREDICT SI", "Nuevos datos SI" and "Nuevos usuarios SI"
\* respectively, changing neither table and returning no forecast.
C5_PermissionRejectsBeforeEffect == [][C5_Step]_vars

\* A caller without "Nuevos datos SI" (the analyst) was refused /new-data.
C5_Witness ==
    /\ response.op = "new-data"
    /\ response.status = 403
    /\ "Nuevos datos SI" \notin get_user_permissions(response.user.email)

C7_GuardOutcome ==
    \A t \in Tokens :
        LET g == get_current_user(t)
        IN  IF t \notin DOMAIN TOKENS THEN g.status = 401
            ELSE IF \A u \in users : u.email # TOKENS[t] THEN g.status = 404
            ELSE g.status = 200 /\ g.user \in users /\ g.user.email = TOKENS[t]

C7_GuardStep ==
    (response'.op \in Guarded /\ "token" \in DOMAIN response') =>
        LET g == get_current_user(response'.token)
        IN  /\ g.status # 200 =>
                (response'.status = g.status /\ UNCHANGED <<TOKENS, users, main>>)
            /\ g.status = 200 => response'.user = g.user
            /\ response'.op \in {"permissions", "secure-places"} =>
                UNCHANGED <<TOKENS, users, main>>

\* C7: the session guard answers 401 for a token not in the table, 404 for a token
\* whose email has no user row, and otherwise the user row of the mapped email;
\* a route stopped by the guard, and a route that only reads behind it, leaves the
\* token table, the user table and the crime-record table unchanged.
C7_SessionGuard == []C7_GuardOutcome /\ [][C7_GuardStep]_vars

\* A token still in the table was presented after its user row had gone.
C7_Witness ==
    /\ response.op = "permissions"
    /\ response.status = 404
    /\ response.token \in DOMAIN TOKENS

\* C8: a successful /predict returns exactly n_steps rows, none of them a historical
\* period, all with integral yhat, yhat_lower and yhat_upper.
C8_OnlyForecastRows ==
    (response.op = "predict" /\ response.status = 200) =>
        /\ Cardinality(response.rows) = response.n_steps
        /\ \A r \in response.rows :
              /\ r.ds \notin response.history
              /\ r.yhat % 10 = 0 /\ r.yhat_lower % 10 = 0 /\ r.yhat_upper % 10 = 0

\* C9: a /grouped-data answer has no row before a supplied init_time or after a
\* supplied end_time, and with both supplied it has every bucket in between.
C9_RowsInsideWindow ==
    (response.op = "grouped-data" /\ response.status = 200) =>
        /\ \A r \in response.rows :
              /\ response.init_time # None => r.period >= date(response.init_time[1])
              /\ response.end_time # None => r.period <= date(response.end_time[1])
        /\ (response.init_time # None /\ response.end_time # None) =>
              response.rows =
                  {r \in response.fetched :
                      /\ r.period >= date(response.init_time[1])
                      /\ r.period <= date(response.end_time[1])}

C10_Step ==
    /\ \A t \in DOMAIN TOKENS : t \in DOMAIN TOKENS' /\ TOKENS'[t] = TOKENS[t]
    /\ TOKENS' # TOKENS =>
          /\ response'.op = "login"
          /\ response'.status = 200
          /\ verify_login(response'.email, response'.password)
          /\ DOMAIN TOKENS' \ DOMAIN TOKENS = {response'.token}
          /\ TOKENS'[response'.token] = response'.email
    /\ (response'.op = "login" /\ response'.status = 200) =>
          Cardinality(DOMAIN TOKENS') = Cardinality(DOMAIN TOKENS) + 1

\* C10: no step removes or remaps an entry of the token table, and the only step
\* that adds one is a /login whose credentials were verified, which adds exactly
\* one token, not in the table before, mapped to the email it verified.
C10_TokenTableStable == [][C10_Step]_vars

\* The same user holds two tokens at once.
C10_Witness ==
    /\ response.op = "login"
    /\ response.status = 200
    /\ \E t \in DOMAIN TOKENS : t # response.token /\ TOKENS[t] = response.email

====
